---- MODULE Spec2Model ----
(***************************************************************************)
(* A model of fetch_sufu_literatures.py: TextDownloader.__init__ and       *)
(* TextDownloader.get_papers (search, fetch, parse, write), as a state     *)
(* machine over the process-wide Entrez.email, the locals of get_papers,   *)
(* the console, the network handles and the output file on disk.           *)
(*                                                                         *)
(* Text is a sequence of one-character strings, so that str.strip, the     *)
(* newline layout of the report and byte equality of two files are all     *)
(* things the model computes.  A Python value that is either a str or      *)
(* None is a record [py, s].                                               *)
(***************************************************************************)
EXTENDS Integers, Sequences, FiniteSets, TLC

VARIABLES
    instEmail,     \* email argument of each TextDownloader constructed so far, in construction order
    EntrezEmail,   \* the class attribute Entrez.email (process-wide)
    self,          \* index of the instance whose get_papers is running (0: none)
    run,           \* number of get_papers calls started so far
    pc,            \* phase of the current call: Idle, Searching, Fetching, Parsing, Writing, Done, Failed
    failedAt,      \* the statement whose exception left get_papers uncaught ("" when none)
    requests,      \* remote requests issued since the current call began
    console,       \* lines printed since the current call began
    searchHandle,  \* search_handle: "none", "open" or "closed"
    fetchHandle,   \* fetch_handle: "none", "open" or "closed"
    outHandle,     \* f, the handle of SUFU_literature.txt: "none", "open" or "closed"
    id_list,       \* search_results["IdList"]
    root,          \* the PubmedArticle nodes of the parsed document, in document order
    nextArticle,   \* position of the for loop of line 42 in root
    records,       \* the list records
    nextPaper,     \* position of the for loop of line 80 in records
    file,          \* SUFU_literature.txt on disk: [exists, data]
    fileAtStart,   \* history: file when the current call began
    prevRoot       \* history: the document of the previous call, when that call reached Done

vars == <<instEmail, EntrezEmail, self, run, pc, failedAt, requests, console,
          searchHandle, fetchHandle, outHandle, id_list, root, nextArticle,
          records, nextPaper, file, fileAtStart, prevRoot>>

(***************************************************************************)
(* Bounds of the model.                                                    *)
(***************************************************************************)
MaxArticles == 2   \* PubmedArticle nodes in one fetched document
MaxRuns == 2       \* get_papers calls in one process

(***************************************************************************)
(* Python values and text.                                                 *)
(***************************************************************************)
Str(s) == [py |-> "str", s |-> s]
PyNone == [py |-> "None", s |-> <<>>]

\* str(v) as an f-string field does it: None is rendered as the word None.
NoneWord == <<"N", "o", "n", "e">>
Format(v) == IF v.py = "None" THEN NoneWord ELSE v.s

Whitespace == {" ", "\n"}

RECURSIVE LStrip(_)
LStrip(s) == IF s # <<>> /\ Head(s) \in Whitespace THEN LStrip(Tail(s)) ELSE s

RECURSIVE RStrip(_)
RStrip(s) ==
    IF s # <<>> /\ s[Len(s)] \in Whitespace THEN RStrip(SubSeq(s, 1, Len(s) - 1)) ELSE s

\* str.strip()
Strip(s) == RStrip(LStrip(s))

\* sep.join(parts)
RECURSIVE Join(_, _)
Join(parts, sep) ==
    IF parts = <<>> THEN <<>>
    ELSE IF Len(parts) = 1 THEN parts[1]
    ELSE parts[1] \o sep \o Join(Tail(parts), sep)

CommaSpace == <<",", " ">>
Comma == <<",">>

(***************************************************************************)
(* ElementTree elements.  find() returns an element or None; an element    *)
(* has the text before its first child (lead) and the text of and after    *)
(* its children (inner).  Element.text is lead, and None when lead is      *)
(* empty.                                                                  *)
(***************************************************************************)
Elem(lead, inner) == [tag |-> "elem", lead |-> lead, inner |-> inner]
NoElem == [tag |-> "none", lead |-> <<>>, inner |-> <<>>]

\* the text content of the element in the document
Content(e) == e.lead \o e.inner

\* element.text
Text(e) == IF e.lead = <<>> THEN PyNone ELSE Str(e.lead)

(***************************************************************************)
(* Field extraction, lines 44-58: find(), then .text or the fallback.      *)
(***************************************************************************)
FallbackNA == <<"N", "/", "A">>
FallbackTitle == <<"N", "o", " ", "t", "i", "t", "l", "e">>
FallbackJournal == <<"N", "o", " ", "j", "o", "u", "r", "n", "a", "l">>
FallbackYear == <<"U", "n", "k", "n", "o", "w", "n">>

\* x_element.text if x_element is not None else fallback
TextOr(e, fallback) == IF e.tag = "elem" THEN Text(e) ELSE Str(fallback)

(***************************************************************************)
(* Author extraction, lines 60-72.                                         *)
(***************************************************************************)
\* full = f"{first} {last}".strip()
FullName(author) ==
    LET first == TextOr(author.ForeName, <<>>)
        last == TextOr(author.LastName, <<>>)
    IN  Strip(Format(first) \o <<" ">> \o Format(last))

\* the list authors after the loop of line 61
RECURSIVE AuthorNames(_)
AuthorNames(authors) ==
    IF authors = <<>> THEN <<>>
    ELSE LET full == FullName(Head(authors))
         IN  (IF full # <<>> THEN <<full>> ELSE <<>>) \o AuthorNames(Tail(authors))

\* author_line = ", ".join(authors)
AuthorLine(authors) == Join(AuthorNames(authors), CommaSpace)

\* the tuple appended at line 73: (pmid, title, author_line, journal, year, pages)
Extract(article) ==
    << TextOr(article.PMID, FallbackNA),
       TextOr(article.ArticleTitle, FallbackTitle),
       Str(AuthorLine(article.Authors)),
       TextOr(article.JournalTitle, FallbackJournal),
       TextOr(article.Year, FallbackYear),
       TextOr(article.MedlinePgn, FallbackNA) >>

(***************************************************************************)
(* The report, lines 80-85.                                                *)
(***************************************************************************)
DashCount == 80
Dashes == [i \in 1..DashCount |-> "-"]
NL == <<"\n">>

PmidLabel == <<"P", "M", "I", "D", ":", " ">>
TitleLabel == <<"T", "i", "t", "l", "e", ":", " ">>
AuthorsLabel == <<"A", "u", "t", "h", "o", "r", "s", ":", " ">>
JournalLabel == <<"J", "o", "u", "r", "n", "a", "l", ":", " ">>
YearOpen == <<" ", "(">>
PagesLabel == <<")", ",", " ", "p", "p", ".", " ">>

\* the five f.write calls for one paper, in order
Writes(paper) ==
    << PmidLabel \o Format(paper[1]) \o NL,
       TitleLabel \o Format(paper[2]) \o NL,
       AuthorsLabel \o Format(paper[3]) \o NL,
       JournalLabel \o Format(paper[4]) \o YearOpen \o Format(paper[5])
           \o PagesLabel \o Format(paper[6]) \o NL,
       NL \o Dashes \o NL >>

RECURSIVE Concat(_)
Concat(parts) == IF parts = <<>> THEN <<>> ELSE Head(parts) \o Concat(Tail(parts))

\* open(path, "a") in place of "w": the earlier content stays
OpenAppend(old) == old

\* open(path, "w"): the content the file has once opened
OpenTruncate(old) == <<>>

(***************************************************************************)
(* Inputs: record nodes, documents, remote responses, contact strings.     *)
(***************************************************************************)
T123 == <<"1", "2", "3">>
T1 == <<"T", "1">>
J1 == <<"J", "1">>
Y2020 == <<"2", "0", "2", "0">>
P15 == <<"1", "-", "5">>
Jane == <<"J", "a", "n", "e">>
Doe == <<"D", "o", "e">>

SeqsUpTo(S, n) == UNION {[1..k -> S] : k \in 0..n}

Author(fore, last) == [ForeName |-> fore, LastName |-> last]
JaneDoe == Author(Elem(Jane, <<>>), Elem(Doe, <<>>))

\* A PubmedArticle node: the first element each path of lines 45-57 finds (or
\* none), its Author elements in document order, and whether a statement of
\* the try body (lines 44-73) raises on it (error is then the exception's text).
Node(pmid, title, journal, year, pages, authors, error) ==
    [PMID |-> pmid, ArticleTitle |-> title, JournalTitle |-> journal, Year |-> year,
     MedlinePgn |-> pages, Authors |-> authors, error |-> error]

Raises(article) == article.error # ""

\* every field present
ArticleFull ==
    Node(Elem(T123, <<>>), Elem(T1, <<>>), Elem(J1, <<>>), Elem(Y2020, <<>>),
         Elem(P15, <<>>), <<JaneDoe>>, "")

\* no Journal/Title node, no authors, and a title that runs over two lines
ArticleNoJournal ==
    Node(Elem(<<"9">>, <<>>), Elem(<<"T", "\n", "2">>, <<>>), NoElem, Elem(Y2020, <<>>),
         Elem(<<"7">>, <<>>), <<>>, "")

\* a node the try body raises on
ArticleMalformed ==
    Node(Elem(<<"6">>, <<>>), Elem(T1, <<>>), Elem(J1, <<>>), Elem(Y2020, <<>>),
         Elem(P15, <<>>), <<JaneDoe>>, "bad node")

SampleArticles == {ArticleFull, ArticleNoJournal, ArticleMalformed}

\* What find() may return for a field whose text is t: no element, an element
\* without text, an element holding t, an element whose text t sits inside
\* markup (<i>t</i>).
FieldElems(t) == {NoElem, Elem(<<>>, <<>>), Elem(t, <<>>), Elem(<<>>, t)}

\* What find() may return for a name part: no element, an element without
\* text, an element holding t, an element holding one blank.
NameElems(t) == {NoElem, Elem(<<>>, <<>>), Elem(t, <<>>), Elem(<<" ">>, <<>>)}

MaxAuthors == 2    \* Author elements in one record node

\* record nodes that differ in their fields
FieldVariants ==
    {Node(pmid, title, journal, year, pages, <<JaneDoe>>, "") :
        pmid \in FieldElems(T123), title \in FieldElems(T1), journal \in FieldElems(J1),
        year \in FieldElems(Y2020), pages \in FieldElems(P15)}

\* record nodes that differ in their author lists
AuthorVariants ==
    {Node(Elem(T123, <<>>), Elem(T1, <<>>), Elem(J1, <<>>), Elem(Y2020, <<>>),
          Elem(P15, <<>>), authors, "") :
        authors \in SeqsUpTo({Author(fore, last) :
                                 fore \in NameElems(Jane), last \in NameElems(Doe)},
                             MaxAuthors)}

Articles == FieldVariants \cup AuthorVariants \cup SampleArticles

\* the documents a fetch may return
Documents == SeqsUpTo(SampleArticles, MaxArticles)

\* the identifier lists a search may return
IdLists == {<<>>, <<T123, <<"9">>>>}

\* contact strings: nothing checks that one is an address
Emails == {"jane@lab.org", "not an address"}
NotSet == "None"

\* the TextDownloader objects one process constructs, in construction order
Instances == {1, 2}

NoFile == [exists |-> FALSE, data |-> <<>>]
OnDisk(data) == [exists |-> TRUE, data |-> data]
\* content a file of that name may hold before the process starts
OldContent == <<"o", "l", "d", "\n">>

NoDoc == [has |-> FALSE, doc |-> <<>>]

SearchingLine == "Searching for papers..."
SavedLine == "Papers saved to SUFU_literature.txt"
SkipLine(e) == "Skipping one article due to error: " \o e

(***************************************************************************)
(* The state machine.                                                      *)
(***************************************************************************)
Init ==
    /\ instEmail = <<>>
    /\ EntrezEmail = NotSet
    /\ self = 0
    /\ run = 0
    /\ pc = "Idle"
    /\ failedAt = ""
    /\ requests = <<>>
    /\ console = <<>>
    /\ searchHandle = "none"
    /\ fetchHandle = "none"
    /\ outHandle = "none"
    /\ id_list = <<>>
    /\ root = <<>>
    /\ nextArticle = 1
    /\ records = <<>>
    /\ nextPaper = 1
    /\ file \in {NoFile, OnDisk(OldContent)}
    /\ fileAtStart = file
    /\ prevRoot = NoDoc

\* a contact string kept per instance in place of the class attribute
ContactOfInstance(i) == instEmail[i]

\* The contact string a request of instance i carries: Entrez reads the class
\* attribute when it builds the request (lines 29 and 35).
Contact(i) == EntrezEmail

\* a placeholder identifier sent in place of an empty list
FetchParamOrPlaceholder(ids) == IF ids = <<>> THEN <<"0">> ELSE Join(ids, Comma)

\* id=",".join(id_list), line 35
FetchParam(ids) == Join(ids, Comma)

\* a failed step started over in place of the exception leaving the call
RetryFromIdle == "Idle"

\* An exception no handler of get_papers catches ends the call.
Uncaught == "Failed"

\* break in place of continue: the loop ends at the first node that raises
BreakLoop(n) == Len(root) + 1

\* continue, line 77: the loop of line 42 goes on with the next node
AfterExcept(n) == n + 1

\* raise in the except clause: the exception leaves the call
Reraise == "Failed"

\* the except clause of lines 75-77 handles the exception: the call goes on
ExceptPc == "Parsing"

\* records.insert(0, ...) in place of append
PrependRecord(recs, paper) == <<paper>> \o recs

\* records.append(...), line 73
AppendRecord(recs, paper) == Append(recs, paper)

\* how many of the five writes of a block succeed when one of them raises
FailedWrites == {0, 2}

\* a bare open() without with: nothing closes the handle
LeftOpen == "open"

\* the handle f once the with statement of line 79 is left, normally or not
WithExit == "closed"

\* search_handle.close(), line 31, and fetch_handle.close(), line 37
Close == "closed"

\* TextDownloader(email), lines 23-24
Configure(email) ==
    /\ pc = "Idle"
    /\ Len(instEmail) + 1 \in Instances
    /\ instEmail' = Append(instEmail, email)
    /\ EntrezEmail' = email
    /\ UNCHANGED <<self, run, pc, failedAt, requests, console, searchHandle,
                   fetchHandle, outHandle, id_list, root, nextArticle, records,
                   nextPaper, file, fileAtStart, prevRoot>>

\* lines 27-29: the progress line, then Entrez.esearch sends the request
StartSearch(i) ==
    /\ pc = "Idle"
    /\ i \in 1..Len(instEmail)
    /\ run < MaxRuns
    /\ run' = run + 1
    /\ self' = i
    /\ fileAtStart' = file
    /\ console' = Append(console, SearchingLine)
    /\ requests' = Append(requests, [kind |-> "esearch", email |-> Contact(i), id |-> <<>>])
    /\ pc' = "Searching"
    /\ UNCHANGED <<instEmail, EntrezEmail, failedAt, searchHandle, fetchHandle, outHandle,
                   id_list, root, nextArticle, records, nextPaper, file, prevRoot>>

\* line 29: Entrez.esearch returns search_handle, or raises
SearchReply(ok) ==
    /\ pc = "Searching"
    /\ searchHandle = "none"
    /\ IF ok
       THEN /\ searchHandle' = "open"
            /\ UNCHANGED <<pc, failedAt>>
       ELSE /\ pc' = Uncaught
            /\ failedAt' = "esearch"
            /\ UNCHANGED searchHandle
    /\ UNCHANGED <<instEmail, EntrezEmail, self, run, requests, console, fetchHandle,
                   outHandle, id_list, root, nextArticle, records, nextPaper, file,
                   fileAtStart, prevRoot>>

\* lines 30-35: Entrez.read, close, id_list, then Entrez.efetch sends the request
FinishSearch(parsed, ids) ==
    /\ pc = "Searching"
    /\ searchHandle = "open"
    /\ IF ~parsed
       THEN \* Entrez.read raises: line 31 is not reached
            /\ pc' = Uncaught
            /\ failedAt' = "Entrez.read"
            /\ UNCHANGED <<searchHandle, id_list, requests>>
       ELSE /\ searchHandle' = Close
            /\ id_list' = ids
            /\ requests' = Append(requests,
                   [kind |-> "efetch", email |-> Contact(self), id |-> FetchParam(ids)])
            /\ pc' = "Fetching"
            /\ failedAt' = failedAt
    /\ UNCHANGED <<instEmail, EntrezEmail, self, run, console, fetchHandle, outHandle,
                   root, nextArticle, records, nextPaper, file, fileAtStart, prevRoot>>

\* line 35: Entrez.efetch returns fetch_handle, or raises
FetchReply(ok) ==
    /\ pc = "Fetching"
    /\ fetchHandle = "none"
    /\ IF ok
       THEN /\ fetchHandle' = "open"
            /\ UNCHANGED <<pc, failedAt>>
       ELSE /\ pc' = Uncaught
            /\ failedAt' = "efetch"
            /\ UNCHANGED fetchHandle
    /\ UNCHANGED <<instEmail, EntrezEmail, self, run, requests, console, searchHandle,
                   outHandle, id_list, root, nextArticle, records, nextPaper, file,
                   fileAtStart, prevRoot>>

\* lines 36-40: read the payload, close, ET.fromstring, records = []
FinishFetch(readOk, wellFormed, doc) ==
    /\ pc = "Fetching"
    /\ fetchHandle = "open"
    /\ IF ~readOk
       THEN \* fetch_handle.read raises: line 37 is not reached
            /\ pc' = Uncaught
            /\ failedAt' = "fetch_handle.read"
            /\ UNCHANGED <<fetchHandle, root, records, nextArticle>>
       ELSE /\ fetchHandle' = Close
            /\ IF ~wellFormed
               THEN /\ pc' = Uncaught
                    /\ failedAt' = "ET.fromstring"
                    /\ UNCHANGED <<root, records, nextArticle>>
               ELSE /\ root' = doc
                    /\ records' = <<>>
                    /\ nextArticle' = 1
                    /\ pc' = "Parsing"
                    /\ failedAt' = failedAt
    /\ UNCHANGED <<instEmail, EntrezEmail, self, run, requests, console, searchHandle,
                   outHandle, id_list, nextPaper, file, fileAtStart, prevRoot>>

\* lines 42-77, one iteration of the loop over the record nodes
ProcessArticle ==
    /\ pc = "Parsing"
    /\ nextArticle <= Len(root)
    /\ LET article == root[nextArticle]
       IN  IF Raises(article)
           THEN /\ console' = Append(console, SkipLine(article.error))
                /\ nextArticle' = AfterExcept(nextArticle)
                /\ records' = records
                /\ pc' = ExceptPc
           ELSE /\ records' = AppendRecord(records, Extract(article))
                /\ nextArticle' = nextArticle + 1
                /\ console' = console
                /\ pc' = pc
    /\ UNCHANGED <<instEmail, EntrezEmail, self, run, failedAt, requests,
                   searchHandle, fetchHandle, outHandle, id_list, root, nextPaper,
                   file, fileAtStart, prevRoot>>

\* line 79: open("SUFU_literature.txt", "w"), once the loop of line 42 is over
OpenOutput(ok) ==
    /\ pc = "Parsing"
    /\ nextArticle > Len(root)
    /\ IF ok
       THEN /\ file' = OnDisk(OpenTruncate(file.data))
            /\ outHandle' = "open"
            /\ nextPaper' = 1
            /\ pc' = "Writing"
            /\ failedAt' = failedAt
       ELSE /\ pc' = Uncaught
            /\ failedAt' = "open"
            /\ UNCHANGED <<file, outHandle, nextPaper>>
    /\ UNCHANGED <<instEmail, EntrezEmail, self, run, requests, console, searchHandle,
                   fetchHandle, id_list, root, nextArticle, records, fileAtStart,
                   prevRoot>>

\* lines 80-85, one iteration of the loop over records: five writes, of which
\* only the first `done` succeed when a write raises
WritePaper(done) ==
    /\ pc = "Writing"
    /\ nextPaper <= Len(records)
    /\ LET writes == Writes(records[nextPaper])
       IN  /\ done \in FailedWrites \cup {Len(writes)}
           /\ file' = OnDisk(file.data \o Concat(SubSeq(writes, 1, done)))
           /\ IF done = Len(writes)
              THEN /\ nextPaper' = nextPaper + 1
                   /\ UNCHANGED <<pc, failedAt, outHandle>>
              ELSE /\ outHandle' = WithExit
                   /\ pc' = Uncaught
                   /\ failedAt' = "write"
                   /\ nextPaper' = nextPaper
    /\ UNCHANGED <<instEmail, EntrezEmail, self, run, requests, console, searchHandle,
                   fetchHandle, id_list, root, nextArticle, records, fileAtStart,
                   prevRoot>>

\* the end of the with block, then line 87
CloseOutput ==
    /\ pc = "Writing"
    /\ nextPaper > Len(records)
    /\ outHandle' = WithExit
    /\ console' = Append(console, SavedLine)
    /\ pc' = "Done"
    /\ UNCHANGED <<instEmail, EntrezEmail, self, run, failedAt, requests, searchHandle,
                   fetchHandle, id_list, root, nextArticle, records, nextPaper, file,
                   fileAtStart, prevRoot>>

\* get_papers returns (its locals are gone) and the caller goes on
Return ==
    /\ pc = "Done"
    /\ run < MaxRuns
    /\ pc' = "Idle"
    /\ prevRoot' = [has |-> TRUE, doc |-> root]
    /\ self' = 0
    /\ requests' = <<>>
    /\ console' = <<>>
    /\ searchHandle' = "none"
    /\ fetchHandle' = "none"
    /\ outHandle' = "none"
    /\ id_list' = <<>>
    /\ root' = <<>>
    /\ nextArticle' = 1
    /\ records' = <<>>
    /\ nextPaper' = 1
    /\ UNCHANGED <<instEmail, EntrezEmail, run, failedAt, file, fileAtStart>>

Next ==
    \/ \E email \in Emails : Configure(email)
    \/ \E i \in Instances : StartSearch(i)
    \/ \E ok \in BOOLEAN : SearchReply(ok)
    \/ \E parsed \in BOOLEAN, ids \in IdLists : FinishSearch(parsed, ids)
    \/ \E ok \in BOOLEAN : FetchReply(ok)
    \/ \E readOk \in BOOLEAN, wellFormed \in BOOLEAN, doc \in Documents :
           FinishFetch(readOk, wellFormed, doc)
    \/ ProcessArticle
    \/ \E ok \in BOOLEAN : OpenOutput(ok)
    \/ \E done \in 0..5 : WritePaper(done)
    \/ CloseOutput
    \/ Return

Spec == Init /\ [][Next]_vars

(***************************************************************************)
(* Extraction alone: get_papers stands before the loop of line 42 with a   *)
(* document of one record node, drawn from Articles.                       *)
(***************************************************************************)
ExtractInit ==
    /\ instEmail = <<"jane@lab.org">>
    /\ EntrezEmail = "jane@lab.org"
    /\ self = 1
    /\ run = 1
    /\ pc = "Parsing"
    /\ failedAt = ""
    /\ requests = << [kind |-> "esearch", email |-> "jane@lab.org", id |-> <<>>],
                     [kind |-> "efetch", email |-> "jane@lab.org", id |-> T123] >>
    /\ console = <<SearchingLine>>
    /\ searchHandle = "closed"
    /\ fetchHandle = "closed"
    /\ outHandle = "none"
    /\ id_list = <<T123>>
    /\ \E article \in Articles : root = <<article>>
    /\ nextArticle = 1
    /\ records = <<>>
    /\ nextPaper = 1
    /\ file = NoFile
    /\ fileAtStart = NoFile
    /\ prevRoot = NoDoc

ExtractNext == ProcessArticle

ExtractSpec == ExtractInit /\ [][ExtractNext]_vars

(***************************************************************************)
(* Properties.                                                             *)
(***************************************************************************)
\* the record nodes the loop of line 42 has gone through
Processed == SubSeq(root, 1, nextArticle - 1)

\* the nodes of a document the try body does not raise on, in document order
Survivors(doc) == SelectSeq(doc, LAMBDA article : ~Raises(article))

MapExtract(doc) == [k \in 1..Len(doc) |-> Extract(doc[k])]

Min(a, b) == IF a < b THEN a ELSE b

\* the value the record gives a field: the documented fallback when the
\* field's element is missing, the element's text content otherwise
FieldValue(e, fallback) == IF e.tag = "none" THEN Str(fallback) ELSE Str(Content(e))

FieldsExact(article, paper) ==
    /\ paper[1] = FieldValue(article.PMID, FallbackNA)
    /\ paper[2] = FieldValue(article.ArticleTitle, FallbackTitle)
    /\ paper[4] = FieldValue(article.JournalTitle, FallbackJournal)
    /\ paper[5] = FieldValue(article.Year, FallbackYear)
    /\ paper[6] = FieldValue(article.MedlinePgn, FallbackNA)

\* C1: every extracted record holds, for each of id, title, journal, year and
\* pages, the documented fallback when the record node lacks the field and the
\* field's exact text when the node has it, whatever the other fields are.
C1_FieldsExact ==
    \A k \in 1..Min(Len(records), Len(Survivors(Processed))) :
        FieldsExact(Survivors(Processed)[k], records[k])

\* a name part as the record gives it: empty when its element is absent or
\* holds no text
NamePart(e) == IF e.tag = "none" THEN <<>> ELSE Content(e)

NameAsClaimed(author) ==
    Strip(NamePart(author.ForeName) \o <<" ">> \o NamePart(author.LastName))

RECURSIVE NamesAsClaimed(_)
NamesAsClaimed(authors) ==
    IF authors = <<>> THEN <<>>
    ELSE LET name == NameAsClaimed(Head(authors))
         IN  (IF name # <<>> THEN <<name>> ELSE <<>>) \o NamesAsClaimed(Tail(authors))

\* C2: the author line of every extracted record is the ", "-join, in document
\* order, of the authors' names, where an author with an empty given name
\* (absent, or present without text) contributes the family name alone and an
\* author with both names empty contributes nothing; "" when no name remains.
C2_AuthorLine ==
    \A k \in 1..Min(Len(records), Len(Survivors(Processed))) :
        records[k][3] = Str(Join(NamesAsClaimed(Survivors(Processed)[k].Authors), CommaSpace))

\* the lines of a text: its pieces between line breaks
LinesOf(s) ==
    LET breaks == {i \in 1..Len(s) : s[i] = "\n"}
        n == Cardinality(breaks)
        Break(k) == IF k = 0 THEN 0
                    ELSE CHOOSE i \in breaks : Cardinality({j \in breaks : j < i}) = k - 1
        ended == [k \in 1..n |-> SubSeq(s, Break(k - 1) + 1, Break(k) - 1)]
    IN  IF Break(n) < Len(s) THEN Append(ended, SubSeq(s, Break(n) + 1, Len(s))) ELSE ended

\* the six lines of the block of one record, as the report format gives them
BlockLines(paper) ==
    << PmidLabel \o Format(paper[1]),
       TitleLabel \o Format(paper[2]),
       AuthorsLabel \o Format(paper[3]),
       JournalLabel \o Format(paper[4]) \o <<" ", "(">> \o Format(paper[5])
           \o <<")", ",", " ", "p", "p", ".", " ">> \o Format(paper[6]),
       <<>>,
       [i \in 1..80 |-> "-"] >>

RECURSIVE ReportLines(_)
ReportLines(papers) ==
    IF papers = <<>> THEN <<>> ELSE BlockLines(Head(papers)) \o ReportLines(Tail(papers))

RECURSIVE Terminated(_)
Terminated(lines) ==
    IF lines = <<>> THEN <<>> ELSE Head(lines) \o <<"\n">> \o Terminated(Tail(lines))

HasLineBreak(paper) == \E k \in 1..6 : \E i \in 1..Len(Format(paper[k])) : Format(paper[k])[i] = "\n"

\* the records of the nodes of the document that did not raise, in document order
Expected == MapExtract(Survivors(root))

\* C3 as stated: once the write step has ended, the lines of the file are
\* exactly the six lines of one block per surviving record, blocks in document
\* order, and nothing else.
C3_SixLinesPerRecord ==
    pc = "Done" =>
        /\ file.exists
        /\ LinesOf(file.data) = ReportLines(Expected)

\* C3, amended: once the write step has ended, the file is, byte for byte, the
\* blocks of the surviving records in document order and nothing else (nothing
\* of the file's earlier content), each block being its six newline-terminated
\* pieces; the file has exactly six lines per record when no field text of a
\* surviving record holds a line break.
C3_BlocksInOrder ==
    pc = "Done" =>
        /\ file.exists
        /\ file.data = Terminated(ReportLines(Expected))
        /\ (\A k \in 1..Len(Expected) : ~HasLineBreak(Expected[k]))
               => LinesOf(file.data) = ReportLines(Expected)

\* a second call has written a report of one record, shorter than the one the
\* first call left, from a document whose other node raised
C3_Witness ==
    /\ pc = "Done"
    /\ run = 2
    /\ Len(root) = 2
    /\ Len(records) = 1
    /\ ~HasLineBreak(records[1])
    /\ fileAtStart.exists
    /\ Len(fileAtStart.data) > Len(file.data)

SkipLines == {k \in 1..Len(console) : console[k] \notin {SearchingLine, SavedLine}}
RaisedSoFar == {k \in 1..Len(Processed) : Raises(Processed[k])}

\* what C4 says of a record that raises: it is not appended, one diagnostic is
\* printed for it, the records extracted before it are kept and the nodes
\* after it are processed
SkipsOnlyTheRecord ==
    /\ pc \in {"Parsing", "Writing", "Done"} \/ (pc = "Failed" /\ failedAt \in {"open", "write"})
           => /\ records = MapExtract(Survivors(Processed))
              /\ Cardinality(SkipLines) = Cardinality(RaisedSoFar)
              /\ \A k \in RaisedSoFar :
                     \E j \in SkipLines : console[j] = SkipLine(Processed[k].error)
    /\ pc \in {"Writing", "Done"} => Processed = root

RequestsOf(kind) == {k \in 1..Len(requests) : requests[k].kind = kind}
RemoteFailures == {"esearch", "Entrez.read", "efetch", "fetch_handle.read", "ET.fromstring"}

\* C5: a call issues at most one search and at most one fetch request, and when
\* the search or the fetch fails or answers something unparseable the call ends
\* uncaught without the file having been opened (it is as it was when the call
\* began) and without the confirmation line.
C5_RemoteFailureIsFatal ==
    /\ Cardinality(RequestsOf("esearch")) <= 1
    /\ Cardinality(RequestsOf("efetch")) <= 1
    /\ failedAt \in RemoteFailures =>
           /\ pc = "Failed"
           /\ file = fileAtStart
           /\ outHandle = "none"
           /\ \A k \in 1..Len(console) : console[k] # SavedLine

\* the fetch of a second call failed; the report of the first call is intact
C5_Witness ==
    /\ pc = "Failed"
    /\ failedAt = "efetch"
    /\ run = 2
    /\ file.exists
    /\ file.data # <<>>
    /\ file.data # OldContent

\* the search step of the current call returned an empty identifier list
EmptySearch ==
    /\ pc \in {"Fetching", "Parsing", "Writing", "Done", "Failed"}
    /\ failedAt \notin {"esearch", "Entrez.read"}
    /\ id_list = <<>>

FetchIssuedWith(param) == \E k \in RequestsOf("efetch") : requests[k].id = param

C7_Idempotent ==
    pc = "Done" /\ prevRoot.has /\ prevRoot.doc = root => file = fileAtStart

\* two calls in a row wrote the same non-empty report
C7_Witness ==
    /\ pc = "Done"
    /\ prevRoot.has
    /\ prevRoot.doc = root
    /\ Len(records) = 2
    /\ file.data # <<>>

\* C8: every request carries the contact string of the most recent
\* TextDownloader(email) call of the process, whichever instance issues it and
\* whatever the text is, and no request is issued before such a call.
C8_LastConfigureWins ==
    \A k \in 1..Len(requests) :
        /\ instEmail # <<>>
        /\ requests[k].email = instEmail[Len(instEmail)]
        /\ requests[k].email # NotSet

\* the first instance issued a request carrying the string, not an address,
\* that the construction of the second instance set
C8_Witness ==
    /\ self = 1
    /\ instEmail = <<"jane@lab.org", "not an address">>
    /\ \E k \in RequestsOf("efetch") : requests[k].email = "not an address"

PhaseSteps ==
    { <<"Idle", "Searching">>, <<"Searching", "Fetching">>, <<"Fetching", "Parsing">>,
      <<"Parsing", "Writing">>, <<"Writing", "Done">> }

\* C9: a call goes through Idle, Searching, Fetching, Parsing, Writing, Done in
\* that order, one phase at a time; an uncaught exception (in the search, fetch
\* or write step) is final; the confirmation line is printed exactly on
\* reaching Done; an exception on a record node leaves the call in Parsing.
\* (Done to Idle is the return of the call: the next call starts from Idle.)
C9_Phases ==
    /\ [][pc' # pc =>
            \/ <<pc, pc'>> \in PhaseSteps
            \/ pc \in {"Searching", "Fetching", "Parsing", "Writing"} /\ pc' = "Failed"
            \/ pc = "Done" /\ pc' = "Idle" /\ run' = run]_vars
    /\ [][pc = "Failed" => pc' = "Failed" /\ console' = console /\ file' = file]_vars
    /\ [][run' # run => pc = "Idle" /\ pc' = "Searching" /\ run' = run + 1]_vars
    /\ [][pc = "Parsing" /\ nextArticle <= Len(root) => pc' = "Parsing"]_vars
    /\ []((\E k \in 1..Len(console) : console[k] = SavedLine) <=> pc = "Done")
    /\ [](pc = "Failed" <=> failedAt # "")

\* a call reached Done after skipping a record node
C9_Witness ==
    /\ pc = "Done"
    /\ SkipLines # {}
    /\ console[Len(console)] = SavedLine

OpenHandles == {h \in {"search", "fetch", "out"} :
                 (h = "search" /\ searchHandle = "open")
                 \/ (h = "fetch" /\ fetchHandle = "open")
                 \/ (h = "out" /\ outHandle = "open")}

\* C10: the output handle is open only in Writing, and is released once the
\* write step has ended, normally or by a write error; the search handle is
\* closed when the fetch request is issued and the fetch handle when parsing
\* begins; a call without failure has at most one handle open.
C10_HandleScopes ==
    /\ outHandle = "open" => pc = "Writing"
    /\ pc \in {"Idle", "Searching", "Fetching", "Parsing"} => outHandle = "none"
    /\ pc = "Writing" => outHandle = "open"
    /\ pc = "Done" => outHandle = "closed"
    /\ pc = "Failed" => outHandle = (IF failedAt = "write" THEN "closed" ELSE "none")
    /\ RequestsOf("efetch") # {} => searchHandle = "closed"
    /\ pc \in {"Parsing", "Writing", "Done"} => fetchHandle = "closed"
    /\ pc # "Failed" => Cardinality(OpenHandles) <= 1

\* a write raised in the middle of a block: the handle has been released
C10_Witness ==
    /\ pc = "Failed"
    /\ failedAt = "write"
    /\ outHandle = "closed"
    /\ file.data # <<>>

====
